---- MODULE Spec2Model ----
(***************************************************************************)
(* elm327diag: one-shot OBD-II Mode 1 sweep over a fixed PID table.        *)
(* The model follows src/elm327diag.c statement by statement: parse_args,  *)
(* the catalog set-up in main, setupcommands, query_elm, the QUERY_OR_ERR  *)
(* macro and the sweep loop of main.  The transport library (elm327.h),    *)
(* fopen and the C runtime are the environment: their results are chosen   *)
(* nondeterministically.                                                   *)
(*                                                                         *)
(* A C double is modelled exactly as a fraction [n, d]; every value the    *)
(* program computes is a multiple of 1/4 below 2^16, which a double holds  *)
(* without rounding.                                                       *)
(***************************************************************************)
EXTENDS Integers, Sequences, FiniteSets, TLC

VARIABLES
    pc,            \* position of the single thread of control
    argv,          \* argv[1..argc-1] (argv[0] is the program name)
    device_name,   \* global option, line 41
    output_file,   \* global option, line 42
    usagePrinted,  \* parse_args printed the usage text
    elm_fd,        \* handle returned by elm327_init (NoFd before, -1 on failure)
    devOpen,       \* the transport handle is open
    shutdowns,     \* number of calls of elm327_shutdown
    timeout,       \* the library's process-wide receive timeout (0: library default)
    timeoutSets,   \* number of calls of elm327_set_timeout
    o,             \* struct obdpid o[25]
    builds,        \* number of calls of setupcommands
    out,           \* FILE *out: "unset", "NULL" or "FILE"
    sinkOpen,      \* the stream behind out is open
    opens,         \* number of successful fopen calls
    closes,        \* number of times the stream was closed (fclose or exit)
    buf,           \* lines in the stdio buffer of out, not yet in the file
    file,          \* lines of the file named output_file
    writesToNull,  \* number of fprintf calls made with out == NULL
    j,             \* loop index of the sweep
    recv_msg,      \* elm327_msg_t *recv_msg: NullMsg or the message bytes
    liveBufs,      \* response buffers received and not yet destroyed
    received,      \* number of response buffers handed out by elm327_recv_msgs
    released,      \* number of response buffers destroyed
    inflight,      \* requests sent whose outcome has not been observed yet
    flushedSince,  \* elm327_flush ran since the last receive
    b1, b2, r,     \* locals of the loop body, lines 494-496
    err,           \* _err of QUERY_OR_ERR (0 while no query failed)
    failure,       \* which transport call failed: "none", "send" or "recv"
    sent,          \* the request codes handed to elm327_send_msg, in order
    sentSlots,     \* the slots whose request was handed to elm327_send_msg, in order
    responses,     \* per slot, the payload bytes (offsets 2, 3) of its response
    status         \* exit status of the process (NoStatus while running)

vars == << pc, argv, device_name, output_file, usagePrinted, elm_fd, devOpen,
           shutdowns, timeout, timeoutSets, o, builds, out, sinkOpen, opens,
           closes, buf, file, writesToNull, j, recv_msg, liveBufs, received,
           released, inflight, flushedSince, b1, b2, r, err, failure, sent,
           sentSlots, responses, status >>

----------------------------------------------------------------------------
(* Bounds of the model *)

\* longest command line tried: argc - 1 <= MaxArgs
MaxArgs == 2

----------------------------------------------------------------------------
(* Program constants *)

NumSlots == 25
TimeoutMs == 3000
ExitUsage == 1
ErrSend == 1
ErrRecv == 2
ExitOk == 0

DEFAULT_DEVICE_NAME == "/dev/pts/8"
DEFAULT_OUTPUT_FILE == "carstats.csv"

\* Exit status of a process killed by SIGSEGV, as a shell reports it.
Segv == 139

NoFd == -2
BadFd == -1
GoodFd == 3
NoStatus == -1
NullMsg == << >>

Slots == 0 .. (NumSlots - 1)

\* Words a command line is made of.
Tokens == {"-d", "-f", "x"}

\* Payload bytes (message offsets 2 and 3) the adapter may answer with.
Payloads == { <<95, 0>>, <<26, 44>>, <<60, 0>> }

\* An indeterminate (never initialised) field of the automatic array o.
IndetInt == -1
IndetStr == "<indeterminate>"

----------------------------------------------------------------------------
(* Doubles, as exact fractions *)

Frac(n, d) == [n |-> n, d |-> d]

\* rpmcalc without the outer parentheses: (a*256)+b/4
rpmcalc_NoParens(a, b) == Frac((a.n * 256 * b.d * 4 + b.n * a.d), a.d * b.d * 4)

\* double rpmcalc(double a, double b) { return ((a*256)+b)/4; }
rpmcalc(a, b) == Frac((a.n * 256 * b.d + b.n * a.d), a.d * b.d * 4)

\* double stdcalc(double a, double b) { return a; }
stdcalc(a, b) == a

\* the call through the function pointer o[j].calculate
Calculate(f, a, b) == IF f = "rpmcalc" THEN rpmcalc(a, b) ELSE stdcalc(a, b)

\* (double) of an unsigned message byte
ToDouble(byte) == Frac(byte, 1)

\* printf's "%s, %f\n": the name, the integer part and six decimals.
FormatLine(name, v) ==
    [name |-> name,
     ip   |-> v.n \div v.d,
     fp   |-> ((v.n % v.d) * 1000000) \div v.d]

----------------------------------------------------------------------------
(* Command line: parse_args, lines 77-126 *)

Args == UNION { [1 .. n -> Tokens] : n \in 0 .. MaxArgs }

\* The for loop of lines 83-109.  argc = Len(args) + 1, args[i] is argv[i].
RECURSIVE ParseLoop(_, _, _)
ParseLoop(args, i, st) ==
    LET argc == Len(args) + 1 IN
    IF ~(i < argc /\ ~st.help) THEN st
    ELSE IF args[i] = "-d"
         THEN IF i < argc - 1
              THEN ParseLoop(args, i + 2, [st EXCEPT !.dev = args[i + 1]])
              ELSE ParseLoop(args, i + 1, [st EXCEPT !.help = TRUE])
    ELSE IF args[i] = "-f"
         THEN IF i < argc - 1
              THEN ParseLoop(args, i + 2, [st EXCEPT !.outf = args[i + 1]])
              ELSE ParseLoop(args, i + 1, [st EXCEPT !.help = TRUE])
    ELSE ParseLoop(args, i + 1, st)

\* parse_args without the argc < 2 test of line 81
parse_args_NoArgcTest(args, dev, outf) ==
    ParseLoop(args, 1, [dev |-> dev, outf |-> outf, help |-> FALSE])

\* parse_args up to line 112: the options and the help flag it ends with.
parse_args(args, dev, outf) ==
    ParseLoop(args, 1, [dev |-> dev, outf |-> outf, help |-> (Len(args) + 1 < 2)])

----------------------------------------------------------------------------
(* The catalog: struct obdpid, lines 62-73, and setupcommands, lines 139-212 *)

IndetFrac == Frac(IndetInt, 1)

\* An element of the automatic array o before anything is stored in it.
IndetPid ==
    [command |-> IndetInt, min |-> IndetFrac, max |-> IndetFrac,
     bytes |-> IndetInt, datatype |-> IndetInt, units |-> IndetStr,
     calculate |-> IndetStr, commandname |-> IndetStr]

\* the loop of lines 467-471 stopping one slot short (i < 24)
InitSlotTable_OneShort(t) ==
    [i \in Slots |->
        IF i < NumSlots - 1
        THEN [t[i] EXCEPT !.bytes = 0, !.calculate = "stdcalc"]
        ELSE t[i]]

\* lines 467-471
InitSlotTable(t) ==
    [i \in Slots |-> [t[i] EXCEPT !.bytes = 0, !.calculate = "stdcalc"]]

\* lines 144-147
Pid3(e) ==
    [e EXCEPT !.datatype = 0, !.command = 3,
              !.commandname = "Fuel System Status", !.bytes = 1]

\* lines 151-157
Pid4(e) ==
    [e EXCEPT !.datatype = 0, !.command = 4,
              !.commandname = "Calculated Engine Load",
              !.min = Frac(0, 1), !.max = Frac(100, 1),
              !.units = "PERCENT", !.bytes = 1]

\* lines 161-167
Pid5(e) ==
    [e EXCEPT !.datatype = 0, !.command = 5,
              !.commandname = "Engine Coolant Temperature",
              !.min = Frac(-40, 1), !.max = Frac(215, 1),
              !.units = "CELSIUS", !.bytes = 1]

\* lines 175-181 with the request code written 0x10 for 0x0A
Pid10_WrongCode(e) ==
    [e EXCEPT !.datatype = 0, !.command = 16,
              !.commandname = "Fuel Gauge Pressure",
              !.min = Frac(0, 1), !.max = Frac(765, 1),
              !.units = "PASCALS", !.bytes = 1]

\* lines 175-181
Pid10(e) ==
    [e EXCEPT !.datatype = 0, !.command = 10,
              !.commandname = "Fuel Gauge Pressure",
              !.min = Frac(0, 1), !.max = Frac(765, 1),
              !.units = "PASCALS", !.bytes = 1]

\* lines 185-191
Pid11(e) ==
    [e EXCEPT !.datatype = 0, !.command = 11,
              !.commandname = "Intake Manifold Absolute Pressure",
              !.min = Frac(0, 1), !.max = Frac(255, 1),
              !.units = "PASCALS", !.bytes = 1]

\* lines 195-202; 16383.75 is 1638375/100
Pid12(e) ==
    [e EXCEPT !.datatype = 1, !.command = 12,
              !.commandname = "Engine Speed",
              !.min = Frac(0, 1), !.max = Frac(1638375, 100),
              !.units = "RPM", !.bytes = 2,
              !.calculate = "rpmcalc"]

\* lines 206-212
Pid13(e) ==
    [e EXCEPT !.datatype = 0, !.command = 13,
              !.commandname = "Vehicle Speed",
              !.min = Frac(0, 1), !.max = Frac(255, 1),
              !.units = "KILOMETERSPERHOUR", !.bytes = 1]

\* setupcommands with "o[12].bytes += 2" for "o[12].bytes = 2"
setupcommands_Accumulate(t) ==
    [t EXCEPT ![3] = Pid3(@), ![4] = Pid4(@), ![5] = Pid5(@),
              ![10] = Pid10(@), ![11] = Pid11(@),
              ![12] = [Pid12(@) EXCEPT !.bytes = t[12].bytes + 2],
              ![13] = Pid13(@)]

setupcommands(t) ==
    [t EXCEPT ![3] = Pid3(@), ![4] = Pid4(@), ![5] = Pid5(@),
              ![10] = Pid10(@), ![11] = Pid11(@), ![12] = Pid12(@),
              ![13] = Pid13(@)]

\* the slots the sweep queries: o[j].bytes > 0, line 488
Active(t) == { i \in Slots : t[i].bytes > 0 }

----------------------------------------------------------------------------
(* Initial state: the process has been started with some command line *)

\* everything but the position, the command line and the catalog
InitRest ==
    /\ device_name = DEFAULT_DEVICE_NAME
    /\ output_file = DEFAULT_OUTPUT_FILE
    /\ usagePrinted = FALSE
    /\ elm_fd = NoFd
    /\ devOpen = FALSE
    /\ shutdowns = 0
    /\ timeout = 0
    /\ timeoutSets = 0
    /\ out = "unset"
    /\ sinkOpen = FALSE
    /\ opens = 0
    /\ closes = 0
    /\ buf = << >>
    /\ file = << >>
    /\ writesToNull = 0
    /\ j = 0
    /\ recv_msg = NullMsg
    /\ liveBufs = 0
    /\ received = 0
    /\ released = 0
    /\ inflight = 0
    /\ flushedSince = FALSE
    /\ b1 = Frac(0, 1)
    /\ b2 = Frac(0, 1)
    /\ r = Frac(0, 1)
    /\ err = 0
    /\ failure = "none"
    /\ sent = << >>
    /\ sentSlots = << >>
    /\ responses = [i \in Slots |-> NullMsg]
    /\ status = NoStatus

Init ==
    /\ pc = "parse_args"
    /\ argv \in Args
    /\ o = [i \in Slots |-> IndetPid]
    /\ builds = 0
    /\ InitRest

----------------------------------------------------------------------------
(* The C runtime *)

\* exit(code), also what returning code from main does: every stream that is
\* still open is flushed and closed, then the process ends with that status.
AtExit(code) ==
    /\ status' = code
    /\ pc' = "exited"
    /\ IF sinkOpen
       THEN /\ file' = file \o buf
            /\ buf' = << >>
            /\ sinkOpen' = FALSE
            /\ closes' = closes + 1
       ELSE UNCHANGED << file, buf, sinkOpen, closes >>

\* The process is killed by SIGSEGV: no exit handler runs, nothing is flushed.
Crash ==
    /\ status' = Segv
    /\ pc' = "crashed"
    /\ UNCHANGED << file, buf, sinkOpen, closes >>

----------------------------------------------------------------------------
(* main, lines 454-512, with parse_args, query_elm and QUERY_OR_ERR inlined *)

\* line 456: parse_args(argc, argv); lines 112-125 print the usage and exit(1)
ParseArgs ==
    /\ pc = "parse_args"
    /\ LET st == parse_args(argv, device_name, output_file) IN
       /\ device_name' = st.dev
       /\ output_file' = st.outf
       /\ IF st.help
          THEN /\ usagePrinted' = TRUE
               /\ AtExit(ExitUsage)
          ELSE /\ pc' = "elm327_init"
               /\ UNCHANGED << usagePrinted, status, file, buf, sinkOpen, closes >>
    /\ UNCHANGED << failure, argv, elm_fd, devOpen, shutdowns, timeout, timeoutSets, o,
                    builds, out, opens, writesToNull, j, recv_msg, liveBufs,
                    received, released, inflight, flushedSince, b1, b2, r, err,
                    sent, sentSlots, responses >>

\* line 460: int elm_fd = elm327_init(device_name); the result is not checked
ElmInit ==
    /\ pc = "elm327_init"
    /\ \E ok \in BOOLEAN :
         /\ elm_fd' = IF ok THEN GoodFd ELSE BadFd
         /\ devOpen' = ok
    /\ pc' = "set_timeout"
    /\ UNCHANGED << failure, argv, device_name, output_file, usagePrinted, shutdowns,
                    timeout, timeoutSets, o, builds, out, sinkOpen, opens,
                    closes, buf, file, writesToNull, j, recv_msg, liveBufs,
                    received, released, inflight, flushedSince, b1, b2, r, err,
                    sent, sentSlots, responses, status >>

\* lines 462-463 with the timeout given in seconds
SetTimeout_Seconds ==
    /\ pc = "set_timeout"
    /\ timeout' = TimeoutMs \div 1000
    /\ timeoutSets' = timeoutSets + 1
    /\ pc' = "init_slots"
    /\ UNCHANGED << failure, argv, device_name, output_file, usagePrinted, elm_fd,
                    devOpen, shutdowns, o, builds, out, sinkOpen, opens, closes,
                    buf, file, writesToNull, j, recv_msg, liveBufs, received,
                    released, inflight, flushedSince, b1, b2, r, err, sent,
                    sentSlots, responses, status >>

\* lines 462-463
SetTimeout ==
    /\ pc = "set_timeout"
    /\ timeout' = TimeoutMs
    /\ timeoutSets' = timeoutSets + 1
    /\ pc' = "init_slots"
    /\ UNCHANGED << failure, argv, device_name, output_file, usagePrinted, elm_fd,
                    devOpen, shutdowns, o, builds, out, sinkOpen, opens, closes,
                    buf, file, writesToNull, j, recv_msg, liveBufs, received,
                    released, inflight, flushedSince, b1, b2, r, err, sent,
                    sentSlots, responses, status >>

\* lines 466-471
InitSlots ==
    /\ pc = "init_slots"
    /\ o' = InitSlotTable(o)
    /\ pc' = "setupcommands"
    /\ UNCHANGED << failure, argv, device_name, output_file, usagePrinted, elm_fd,
                    devOpen, shutdowns, timeout, timeoutSets, builds, out,
                    sinkOpen, opens, closes, buf, file, writesToNull, j,
                    recv_msg, liveBufs, received, released, inflight,
                    flushedSince, b1, b2, r, err, sent, sentSlots, responses,
                    status >>

\* line 472
Build ==
    /\ pc = "setupcommands"
    /\ o' = setupcommands(o)
    /\ builds' = builds + 1
    /\ pc' = "fopen"
    /\ UNCHANGED << failure, argv, device_name, output_file, usagePrinted, elm_fd,
                    devOpen, shutdowns, timeout, timeoutSets, out, sinkOpen,
                    opens, closes, buf, file, writesToNull, j, recv_msg,
                    liveBufs, received, released, inflight, flushedSince, b1,
                    b2, r, err, sent, sentSlots, responses, status >>

\* line 485: FILE *out = fopen(output_file, "w"); the result is not checked.
\* A successful open creates or truncates the file; a failed one opens nothing.
FOpen ==
    /\ pc = "fopen"
    /\ \E ok \in BOOLEAN :
         IF ok
         THEN /\ out' = "FILE"
              /\ sinkOpen' = TRUE
              /\ opens' = opens + 1
              /\ file' = << >>
         ELSE /\ out' = "NULL"
              /\ UNCHANGED << sinkOpen, opens, file >>
    /\ j' = 0
    /\ pc' = "loop"
    /\ UNCHANGED << failure, argv, device_name, output_file, usagePrinted, elm_fd,
                    devOpen, shutdowns, timeout, timeoutSets, o, builds, closes,
                    buf, writesToNull, recv_msg, liveBufs, received, released,
                    inflight, flushedSince, b1, b2, r, err, sent, sentSlots,
                    responses, status >>

----------------------------------------------------------------------------
(* The sweep, lines 486-502 *)

\* Where the loop of line 486 next stops after leaving slot k: the first
\* slot above k that passes the test of line 488, or NumSlots.
NextStop(t, k) ==
    CHOOSE m \in (k + 1) .. NumSlots :
        /\ m = NumSlots \/ t[m].bytes > 0
        /\ \A n \in (k + 1) .. (m - 1) : ~(t[n].bytes > 0)

\* lines 486 and 488: slot j is inactive; the loop runs over it and over the
\* inactive slots that follow it
LoopSkip ==
    /\ pc = "loop"
    /\ j < NumSlots
    /\ ~(o[j].bytes > 0)
    /\ j' = NextStop(o, j)
    /\ UNCHANGED << failure, argv, device_name, output_file, usagePrinted, elm_fd, devOpen,
                    shutdowns, timeout, timeoutSets, o, builds, out, sinkOpen,
                    opens, closes, buf, file, writesToNull, recv_msg, liveBufs,
                    received, released, inflight, flushedSince, b1, b2, r, err,
                    sent, sentSlots, responses, status >>
    /\ pc' = "loop"

\* lines 486-491: an active slot; elm327_msg_t *recv_msg = NULL
LoopEnter ==
    /\ pc = "loop"
    /\ j < NumSlots
    /\ o[j].bytes > 0
    /\ recv_msg' = NullMsg
    /\ pc' = "send"
    /\ UNCHANGED << failure, argv, device_name, output_file, usagePrinted, elm_fd, devOpen,
                    shutdowns, timeout, timeoutSets, o, builds, out, sinkOpen,
                    opens, closes, buf, file, writesToNull, j, liveBufs, received,
                    released, inflight, flushedSince, b1, b2, r, err, sent,
                    sentSlots, responses, status >>

\* line 486: j reached 25
LoopExit ==
    /\ pc = "loop"
    /\ ~(j < NumSlots)
    /\ pc' = "fclose"
    /\ UNCHANGED << failure, argv, device_name, output_file, usagePrinted, elm_fd, devOpen,
                    shutdowns, timeout, timeoutSets, o, builds, out, sinkOpen,
                    opens, closes, buf, file, writesToNull, j, recv_msg, liveBufs,
                    received, released, inflight, flushedSince, b1, b2, r, err,
                    sent, sentSlots, responses, status >>

\* query_elm, lines 425-429: build the Mode 1 request for o[j].command and
\* send it.  elm327_send_msg returns -1 on failure, and always does on a
\* handle that elm327_init did not open.
Send ==
    /\ pc = "send"
    /\ sent' = Append(sent, o[j].command)
    /\ sentSlots' = Append(sentSlots, j)
    /\ \E ok \in BOOLEAN :
         /\ ok => elm_fd = GoodFd
         /\ IF ok
            THEN /\ inflight' = inflight + 1
                 /\ pc' = "recv"
                 /\ err' = err
                 /\ failure' = failure
            ELSE /\ err' = ErrSend
                 /\ failure' = "send"
                 /\ pc' = "query_failed"
                 /\ inflight' = inflight
    /\ UNCHANGED << argv, device_name, output_file, usagePrinted, elm_fd, devOpen,
                    shutdowns, timeout, timeoutSets, o, builds, out, sinkOpen,
                    opens, closes, buf, file, writesToNull, j, recv_msg, liveBufs,
                    received, released, flushedSince, b1, b2, r, responses, status >>

\* query_elm, lines 431-433: *msgs = elm327_recv_msgs(...); NULL is a failure
Receive ==
    /\ pc = "recv"
    /\ inflight' = inflight - 1
    /\ \/ \E p \in Payloads :
            /\ recv_msg' = << 65, o[j].command, p[1], p[2] >>
            /\ responses' = [responses EXCEPT ![j] = p]
            /\ liveBufs' = liveBufs + 1
            /\ received' = received + 1
            /\ flushedSince' = FALSE
            /\ pc' = "flush"
            /\ err' = err
            /\ failure' = failure
       \/ /\ recv_msg' = NullMsg
          /\ err' = ErrRecv
          /\ failure' = "recv"
          /\ pc' = "query_failed"
          /\ UNCHANGED << responses, liveBufs, received, flushedSince >>
    /\ UNCHANGED << argv, device_name, output_file, usagePrinted, elm_fd, devOpen,
                    shutdowns, timeout, timeoutSets, o, builds, out, sinkOpen,
                    opens, closes, buf, file, writesToNull, j, released, b1, b2,
                    r, sent, sentSlots, status >>

\* query_elm without its elm327_flush call
Flush_Skip ==
    /\ pc = "flush"
    /\ flushedSince' = flushedSince
    /\ pc' = "decode"
    /\ UNCHANGED << failure, argv, device_name, output_file, usagePrinted, elm_fd, devOpen,
                    shutdowns, timeout, timeoutSets, o, builds, out, sinkOpen,
                    opens, closes, buf, file, writesToNull, j, recv_msg, liveBufs,
                    received, released, inflight, b1, b2, r, err, sent, sentSlots,
                    responses, status >>

\* query_elm, lines 435-438: elm327_flush, return 0
Flush ==
    /\ pc = "flush"
    /\ flushedSince' = TRUE
    /\ pc' = "decode"
    /\ UNCHANGED << failure, argv, device_name, output_file, usagePrinted, elm_fd, devOpen,
                    shutdowns, timeout, timeoutSets, o, builds, out, sinkOpen,
                    opens, closes, buf, file, writesToNull, j, recv_msg, liveBufs,
                    received, released, inflight, b1, b2, r, err, sent, sentSlots,
                    responses, status >>

\* elm327_destroy_recv_msgs(m): releases the buffer m points to; NULL is
\* accepted and releases nothing.
DestroyRecvMsgs(m) ==
    IF m = NullMsg
    THEN UNCHANGED << liveBufs, released >>
    ELSE /\ liveBufs' = liveBufs - 1
         /\ released' = released + 1

\* QUERY_OR_ERR asking again instead of returning: the failed entry's
\* request is sent once more
QueryOrErrAbort_Retry ==
    /\ pc = "query_failed"
    /\ DestroyRecvMsgs(recv_msg)
    /\ pc' = "send"
    /\ UNCHANGED << status, file, buf, sinkOpen, closes >>
    /\ UNCHANGED << failure, argv, device_name, output_file, usagePrinted, elm_fd, devOpen,
                    shutdowns, timeout, timeoutSets, o, builds, out, opens,
                    writesToNull, j, recv_msg, received, inflight, flushedSince,
                    b1, b2, r, err, sent, sentSlots, responses >>

\* QUERY_OR_ERR ending the process with _exit(_err) instead of returning
\* from main: the process ends at once, no stream is flushed or closed.
QueryOrErrAbort_ExitNow ==
    /\ pc = "query_failed"
    /\ DestroyRecvMsgs(recv_msg)
    /\ status' = err
    /\ pc' = "exited"
    /\ UNCHANGED << file, buf, sinkOpen, closes >>
    /\ UNCHANGED << failure, argv, device_name, output_file, usagePrinted, elm_fd, devOpen,
                    shutdowns, timeout, timeoutSets, o, builds, out, opens,
                    writesToNull, j, recv_msg, received, inflight, flushedSince,
                    b1, b2, r, err, sent, sentSlots, responses >>

\* QUERY_OR_ERR without its return: the failed entry is dropped and the
\* sweep goes on with the next slot.
QueryOrErrAbort_Continue ==
    /\ pc = "query_failed"
    /\ DestroyRecvMsgs(recv_msg)
    /\ j' = j + 1
    /\ pc' = "loop"
    /\ UNCHANGED << status, file, buf, sinkOpen, closes >>
    /\ UNCHANGED << failure, argv, device_name, output_file, usagePrinted, elm_fd, devOpen,
                    shutdowns, timeout, timeoutSets, o, builds, out, opens,
                    writesToNull, recv_msg, received, inflight, flushedSince,
                    b1, b2, r, err, sent, sentSlots, responses >>

\* QUERY_OR_ERR, lines 447-450: query_elm returned non-zero; the macro
\* destroys *_recv and returns _err from main, which ends the process.
QueryOrErrAbort ==
    /\ pc = "query_failed"
    /\ DestroyRecvMsgs(recv_msg)
    /\ AtExit(err)
    /\ UNCHANGED << failure, argv, device_name, output_file, usagePrinted, elm_fd, devOpen,
                    shutdowns, timeout, timeoutSets, o, builds, out, opens,
                    writesToNull, j, recv_msg, received, inflight, flushedSince,
                    b1, b2, r, err, sent, sentSlots, responses >>

\* lines 494-495 reading message offsets 1 and 2 instead of 2 and 3
Decode_WrongOffset ==
    /\ pc = "decode"
    /\ b1' = ToDouble(recv_msg[2])
    /\ b2' = ToDouble(recv_msg[3])
    /\ r' = Calculate(o[j].calculate, ToDouble(recv_msg[2]), ToDouble(recv_msg[3]))
    /\ pc' = "destroy"
    /\ UNCHANGED << failure, argv, device_name, output_file, usagePrinted, elm_fd, devOpen,
                    shutdowns, timeout, timeoutSets, o, builds, out, sinkOpen,
                    opens, closes, buf, file, writesToNull, j, recv_msg, liveBufs,
                    received, released, inflight, flushedSince, err, sent,
                    sentSlots, responses, status >>

\* lines 494-496
Decode ==
    /\ pc = "decode"
    /\ b1' = ToDouble(recv_msg[3])
    /\ b2' = ToDouble(recv_msg[4])
    /\ r' = Calculate(o[j].calculate, ToDouble(recv_msg[3]), ToDouble(recv_msg[4]))
    /\ pc' = "destroy"
    /\ UNCHANGED << failure, argv, device_name, output_file, usagePrinted, elm_fd, devOpen,
                    shutdowns, timeout, timeoutSets, o, builds, out, sinkOpen,
                    opens, closes, buf, file, writesToNull, j, recv_msg, liveBufs,
                    received, released, inflight, flushedSince, err, sent,
                    sentSlots, responses, status >>

\* line 498 left out: the response buffer is never released
Destroy_Leak ==
    /\ pc = "destroy"
    /\ pc' = "fprintf"
    /\ UNCHANGED << liveBufs, released >>
    /\ UNCHANGED << failure, argv, device_name, output_file, usagePrinted, elm_fd, devOpen,
                    shutdowns, timeout, timeoutSets, o, builds, out, sinkOpen,
                    opens, closes, buf, file, writesToNull, j, recv_msg, received,
                    inflight, flushedSince, b1, b2, r, err, sent, sentSlots,
                    responses, status >>

\* line 498
Destroy ==
    /\ pc = "destroy"
    /\ DestroyRecvMsgs(recv_msg)
    /\ pc' = "fprintf"
    /\ UNCHANGED << failure, argv, device_name, output_file, usagePrinted, elm_fd, devOpen,
                    shutdowns, timeout, timeoutSets, o, builds, out, sinkOpen,
                    opens, closes, buf, file, writesToNull, j, recv_msg, received,
                    inflight, flushedSince, b1, b2, r, err, sent, sentSlots,
                    responses, status >>

\* line 500 followed by a write to the catalog: the reported slot is marked
\* as done by clearing its width
Emit_MarksDone ==
    /\ pc = "fprintf"
    /\ out = "FILE"
    /\ buf' = Append(buf, FormatLine(o[j].commandname, r))
    /\ o' = [o EXCEPT ![j].bytes = 0]
    /\ j' = j + 1
    /\ pc' = "loop"
    /\ UNCHANGED << failure, argv, device_name, output_file, usagePrinted, elm_fd, devOpen,
                    shutdowns, timeout, timeoutSets, builds, out, sinkOpen,
                    opens, closes, file, writesToNull, recv_msg, liveBufs,
                    received, released, inflight, flushedSince, b1, b2, r, err,
                    sent, sentSlots, responses, status >>

\* line 500 with an open stream: the line goes to the stream's buffer
Emit ==
    /\ pc = "fprintf"
    /\ out = "FILE"
    /\ buf' = Append(buf, FormatLine(o[j].commandname, r))
    /\ j' = j + 1
    /\ pc' = "loop"
    /\ UNCHANGED << failure, argv, device_name, output_file, usagePrinted, elm_fd, devOpen,
                    shutdowns, timeout, timeoutSets, o, builds, out, sinkOpen,
                    opens, closes, file, writesToNull, recv_msg, liveBufs,
                    received, released, inflight, flushedSince, b1, b2, r, err,
                    sent, sentSlots, responses, status >>

\* line 500 with out == NULL: undefined behaviour.  The C library either
\* dereferences the null stream (SIGSEGV) or rejects it and returns.
EmitNull ==
    /\ pc = "fprintf"
    /\ out = "NULL"
    /\ writesToNull' = writesToNull + 1
    /\ \/ /\ Crash
          /\ j' = j
       \/ /\ j' = j + 1
          /\ pc' = "loop"
          /\ UNCHANGED << status, file, buf, sinkOpen, closes >>
    /\ UNCHANGED << failure, argv, device_name, output_file, usagePrinted, elm_fd, devOpen,
                    shutdowns, timeout, timeoutSets, o, builds, out, opens,
                    recv_msg, liveBufs, received, released, inflight,
                    flushedSince, b1, b2, r, err, sent, sentSlots, responses >>

\* line 506 with an open stream: flush and close it
FClose ==
    /\ pc = "fclose"
    /\ out = "FILE"
    /\ file' = file \o buf
    /\ buf' = << >>
    /\ sinkOpen' = FALSE
    /\ closes' = closes + 1
    /\ pc' = "shutdown"
    /\ UNCHANGED << failure, argv, device_name, output_file, usagePrinted, elm_fd, devOpen,
                    shutdowns, timeout, timeoutSets, o, builds, out, opens,
                    writesToNull, j, recv_msg, liveBufs, received, released,
                    inflight, flushedSince, b1, b2, r, err, sent, sentSlots,
                    responses, status >>

\* line 506 with out == NULL: undefined behaviour, as for fprintf
FCloseNull ==
    /\ pc = "fclose"
    /\ out = "NULL"
    /\ \/ Crash
       \/ /\ pc' = "shutdown"
          /\ UNCHANGED << status, file, buf, sinkOpen, closes >>
    /\ UNCHANGED << failure, argv, device_name, output_file, usagePrinted, elm_fd, devOpen,
                    shutdowns, timeout, timeoutSets, o, builds, out, opens,
                    writesToNull, j, recv_msg, liveBufs, received, released,
                    inflight, flushedSince, b1, b2, r, err, sent, sentSlots,
                    responses >>

\* line 510
Shutdown ==
    /\ pc = "shutdown"
    /\ shutdowns' = shutdowns + 1
    /\ devOpen' = FALSE
    /\ pc' = "return"
    /\ UNCHANGED << failure, argv, device_name, output_file, usagePrinted, elm_fd, timeout,
                    timeoutSets, o, builds, out, sinkOpen, opens, closes, buf,
                    file, writesToNull, j, recv_msg, liveBufs, received, released,
                    inflight, flushedSince, b1, b2, r, err, sent, sentSlots,
                    responses, status >>

\* line 512: control reaches the end of main, which returns 0
MainReturn ==
    /\ pc = "return"
    /\ AtExit(ExitOk)
    /\ UNCHANGED << failure, argv, device_name, output_file, usagePrinted, elm_fd, devOpen,
                    shutdowns, timeout, timeoutSets, o, builds, out, opens,
                    writesToNull, j, recv_msg, liveBufs, received, released,
                    inflight, flushedSince, b1, b2, r, err, sent, sentSlots,
                    responses >>

Next ==
    \/ ParseArgs
    \/ ElmInit
    \/ SetTimeout
    \/ InitSlots
    \/ Build
    \/ FOpen
    \/ LoopSkip
    \/ LoopEnter
    \/ LoopExit
    \/ Send
    \/ Receive
    \/ Flush
    \/ QueryOrErrAbort
    \/ Decode
    \/ Destroy
    \/ Emit
    \/ EmitNull
    \/ FClose
    \/ FCloseNull
    \/ Shutdown
    \/ MainReturn

Spec == Init /\ [][Next]_vars

----------------------------------------------------------------------------
(* Vocabulary of the properties *)

\* the active slots of table t in ascending slot order
ActiveSeq(t) ==
    LET S == Active(t) IN
    [i \in 1 .. Cardinality(S) |->
        CHOOSE x \in S : Cardinality({ y \in S : y < x }) = i - 1]

\* every line the run has written so far, in the file or still buffered
Written == file \o buf

Terminated == pc \in {"exited", "crashed"}

\* the run got past parse_args
Validated == pc # "parse_args" /\ ~usagePrinted

NoDuplicates(q) == \A a, b \in 1 .. Len(q) : q[a] = q[b] => a = b

\* line i of the lines ls names the i-th active slot
NamesActivePrefix(ls) ==
    LET act == ActiveSeq(o) IN
    /\ Len(ls) <= Len(act)
    /\ \A i \in 1 .. Len(ls) : ls[i].name = o[act[i]].commandname

\* the 1-based position, among the active slots, of the entry whose
\* request was handed to the transport last
LastSentIndex ==
    CHOOSE k \in 1 .. Len(ActiveSeq(o)) :
        ActiveSeq(o)[k] = sentSlots[Len(sentSlots)]

----------------------------------------------------------------------------
(* C1 *)

\* C1 (abort-prefix): if the first transport failure happens on the k-th
\* active entry, the report holds exactly k-1 lines when the run has ended,
\* line i naming the i-th active entry in ascending slot order; and at no
\* time are the lines written so far anything but such a prefix.
C1_AbortPrefix ==
    /\ builds > 0 => NamesActivePrefix(Written)
    /\ (pc = "exited" /\ failure # "none") =>
          /\ Len(file) = LastSentIndex - 1
          /\ NamesActivePrefix(file)

----------------------------------------------------------------------------
(* C2 *)

\* C2: once a send or a receive has failed, no further request is built or
\* sent, and no active entry's request is ever sent twice.
C2_NoRequestAfterFailure ==
    /\ [](NoDuplicates(sentSlots))
    /\ [][failure # "none" => (sent' = sent /\ sentSlots' = sentSlots)]_vars

\* A run that sent several requests, failed on the last of them and ended.
C2_Witness ==
    /\ pc = "exited"
    /\ failure = "recv"
    /\ Len(sentSlots) = 3
    /\ sentSlots[3] = 5

----------------------------------------------------------------------------
(* C3 *)

\* C3: the result of a run is the send-error code exactly when a send
\* failed, the receive-error code exactly when a receive failed, and the
\* success code only when every active entry was sent, received and
\* reported; the three codes differ.
C3_ResultKinds ==
    /\ ErrSend # ErrRecv /\ ErrSend # ExitOk /\ ErrRecv # ExitOk
    /\ (pc = "exited" /\ Validated) =>
          /\ status = ErrSend <=> failure = "send"
          /\ status = ErrRecv <=> failure = "recv"
          /\ status = ExitOk =>
                /\ sentSlots = ActiveSeq(o)
                /\ received = Len(ActiveSeq(o))
                /\ Len(file) = Len(ActiveSeq(o))
                /\ NamesActivePrefix(file)

----------------------------------------------------------------------------
(* C4 *)

\* C4 (active count): a request is sent and a line is written only for
\* slots with bytes > 0, and a run that meets no transport failure ends
\* with exactly one line per active slot, in ascending slot order.
C4_ActiveCount ==
    /\ \A i \in 1 .. Len(sentSlots) : o[sentSlots[i]].bytes > 0
    /\ builds > 0 => NamesActivePrefix(Written)
    /\ (Terminated /\ Validated /\ failure = "none") =>
          /\ Len(file) = Len(ActiveSeq(o))
          /\ NamesActivePrefix(file)

----------------------------------------------------------------------------
(* C5 *)

----------------------------------------------------------------------------
(* C6 *)

\* C6: when the output sink could not be opened, no Reading is ever written
\* through it and the run does not end with the success status.
C6_SinkErrorSurfaced ==
    out = "NULL" =>
        /\ writesToNull = 0
        /\ pc = "exited" => status # ExitOk

----------------------------------------------------------------------------
(* C7 *)

IsFlag(tok) == tok \in {"-d", "-f"}

\* argv[n] is the value of the option before it
RECURSIVE IsValueAt(_, _)
IsValueAt(args, n) ==
    /\ n > 1
    /\ IsFlag(args[n - 1])
    /\ ~IsValueAt(args, n - 1)

\* no argument at all, or -d or -f as the last argument, standing as an
\* option with no value after it
UsageCase(args) ==
    \/ Len(args) = 0
    \/ /\ IsFlag(args[Len(args)])
       /\ ~IsValueAt(args, Len(args))

----------------------------------------------------------------------------
(* C8 *)

\* C8: at most one request is in flight and at most one response buffer is
\* live; a request is sent only when no request is in flight and no buffer
\* is live; every buffer received is released exactly once.
C8_OneInFlight ==
    /\ inflight \in {0, 1}
    /\ liveBufs \in {0, 1}
    /\ liveBufs = received - released
    /\ pc = "send" => (inflight = 0 /\ liveBufs = 0)
    /\ inflight = 1 => liveBufs = 0
    /\ Terminated => (inflight = 0 /\ released = received)

\* The third request is about to be sent; two buffers were received and
\* both have been released.
C8_Witness ==
    /\ pc = "send"
    /\ Len(sentSlots) = 2
    /\ received = 2
    /\ released = 2

----------------------------------------------------------------------------
(* C9 *)

\* the value a line shows, in quarters; its six decimals are whole quarters
Quarters(line) == line.ip * 4 + (line.fp * 4) \div 1000000

WholeQuarters(line) == (line.fp * 4) % 1000000 = 0

----------------------------------------------------------------------------
(* setupcommands on its own: applied again and again to a slot table *)

\* how often setupcommands is applied to one table
MaxBuilds == 2

\* a slot as some other code could have left it
ForeignPid ==
    [command |-> 99, min |-> Frac(1, 1), max |-> Frac(2, 1), bytes |-> 2,
     datatype |-> 1, units |-> "RPM", calculate |-> "rpmcalc",
     commandname |-> "other"]

SamplePids == { IndetPid, InitSlotTable([i \in Slots |-> IndetPid])[0], ForeignPid }

\* slots whose initial content varies: one setupcommands never touches,
\* two it fills without setting calculate, and the one it sets calculate of
SampleSlots == {0, 4, 12, 13}

SampleTables ==
    { [i \in Slots |-> IF i \in SampleSlots THEN f[i] ELSE IndetPid] :
        f \in [SampleSlots -> SamplePids] }

InitBuild ==
    /\ pc = "catalog"
    /\ argv = << >>
    /\ o \in SampleTables
    /\ builds = 0
    /\ InitRest

\* line 472, once more
Rebuild ==
    /\ pc = "catalog"
    /\ builds < MaxBuilds
    /\ o' = setupcommands(o)
    /\ builds' = builds + 1
    /\ UNCHANGED << pc, failure, argv, device_name, output_file, usagePrinted,
                    elm_fd, devOpen, shutdowns, timeout, timeoutSets, out,
                    sinkOpen, opens, closes, buf, file, writesToNull, j,
                    recv_msg, liveBufs, received, released, inflight,
                    flushedSince, b1, b2, r, err, sent, sentSlots, responses,
                    status >>

NextBuild == Rebuild

SpecBuild == InitBuild /\ [][NextBuild]_vars

----------------------------------------------------------------------------
(* C10 *)

\* C10: setupcommands applied to a catalog it has already built changes no
\* slot's request code, name, payload width or decode rule (nor any other
\* field), whatever the slot table was before the first build.
C10_BuildIdempotent ==
    builds >= 1 =>
        /\ \A i \in Slots :
              /\ setupcommands(o)[i].command = o[i].command
              /\ setupcommands(o)[i].commandname = o[i].commandname
              /\ setupcommands(o)[i].bytes = o[i].bytes
              /\ setupcommands(o)[i].calculate = o[i].calculate
        /\ setupcommands(o) = o

\* A table built twice, one of whose slots held foreign content at first.
C10_Witness ==
    /\ builds = 2
    /\ o[0] = ForeignPid
    /\ o[12].commandname = "Engine Speed"
    /\ o[13].calculate = "rpmcalc"

----------------------------------------------------------------------------
(* C11 *)

\* The single thread of control always takes its next step: every call it
\* makes, the transport's included, returns.
FairSpec == Spec /\ WF_vars(Next)

\* An upper bound on the steps a run still has to take: the start-up, eight
\* steps at most for each slot the loop has not passed yet, and the tail.
StepsLeft ==
    LET slotsLeft == (NumSlots - j) * 8 IN
    CASE pc = "parse_args"    -> NumSlots * 8 + 11
      [] pc = "elm327_init"   -> NumSlots * 8 + 10
      [] pc = "set_timeout"   -> NumSlots * 8 + 9
      [] pc = "init_slots"    -> NumSlots * 8 + 8
      [] pc = "setupcommands" -> NumSlots * 8 + 7
      [] pc = "fopen"         -> NumSlots * 8 + 6
      [] pc = "loop"          -> slotsLeft + 5
      [] pc = "send"          -> slotsLeft + 4
      [] pc = "recv"          -> slotsLeft + 3
      [] pc = "flush"         -> slotsLeft + 2
      [] pc = "decode"        -> slotsLeft + 1
      [] pc = "destroy"       -> slotsLeft
      [] pc = "fprintf"       -> slotsLeft - 1
      [] pc = "fclose"        -> 4
      [] pc = "shutdown"      -> 3
      [] pc = "return"        -> 2
      [] pc = "query_failed"  -> 1
      [] OTHER                -> 0

\* C11: a run that got past parse_args ends, provided every call returns.
\* Every step lowers StepsLeft, which is never negative, and a run that has
\* not ended always has a step to take, so under FairSpec it ends within
\* StepsLeft steps; the loop index never passes 25, and at most one request
\* is sent per catalog slot.
C11_Terminates ==
    /\ [](StepsLeft >= 0)
    /\ [](Terminated \/ ENABLED Next)
    /\ [](j <= NumSlots /\ Len(sentSlots) <= NumSlots /\ NoDuplicates(sentSlots))
    /\ [][StepsLeft' < StepsLeft]_vars

\* What C11_Terminates entails under FairSpec, stated directly: every run
\* ends (one that parse_args rejects ends at once).
EventuallyTerminated == <>Terminated

\* A run that got past parse_args, sent its seven requests and ended.
C11_Witness ==
    /\ Validated
    /\ Terminated
    /\ Len(sentSlots) = 7
    /\ StepsLeft = 0

----------------------------------------------------------------------------
(* C12 *)

\* C12: when a request other than the first of the run is about to be sent,
\* the response to every earlier request has been received and the transport
\* has been flushed since the last of them arrived.
C12_FlushBeforeNextSend ==
    (pc = "send" /\ Len(sent) > 0) =>
        /\ received = Len(sent)
        /\ flushedSince

\* The second request of a run has been sent, after the flush that followed
\* the first response.
C12_Witness ==
    /\ pc = "recv"
    /\ Len(sent) = 2
    /\ received = 1
    /\ flushedSince

----------------------------------------------------------------------------
(* C13 *)

\* the positions of main after the call of setupcommands (line 472)
AfterBuild ==
    pc \in {"fopen", "loop", "send", "recv", "flush", "decode", "destroy",
            "fprintf", "query_failed", "fclose", "shutdown", "return"}

\* C13: a run builds the catalog once and never again; the build has happened
\* before the first request is sent; and from then on no step changes any
\* field of any slot.  (A run that parse_args ends builds no catalog.)
C13_CatalogBuiltOnceThenReadOnly ==
    /\ [](builds <= 1)
    /\ []((AfterBuild \/ Len(sent) > 0) => builds = 1)
    /\ []((Validated /\ Terminated) => builds = 1)
    /\ [][builds >= 1 => (o' = o /\ builds' = builds)]_vars

\* A sweep that requested, decoded and reported all seven entries and ended,
\* with the catalog as the one build left it.
C13_Witness ==
    /\ pc = "exited"
    /\ status = ExitOk
    /\ builds = 1
    /\ Len(sent) = 7
    /\ Len(file) = 7
    /\ o = setupcommands(InitSlotTable([i \in Slots |-> IndetPid]))

----------------------------------------------------------------------------
(* C14 *)

\* the seven parameters setupcommands populates, by slot
SupportedNames ==
    [i \in {3, 4, 5, 10, 11, 12, 13} |->
        CASE i = 3  -> "Fuel System Status"
          [] i = 4  -> "Calculated Engine Load"
          [] i = 5  -> "Engine Coolant Temperature"
          [] i = 10 -> "Fuel Gauge Pressure"
          [] i = 11 -> "Intake Manifold Absolute Pressure"
          [] i = 12 -> "Engine Speed"
          [] i = 13 -> "Vehicle Speed"]

\* C14: once the catalog is built, the active slots are exactly the seven
\* supported parameters, each under its name; every other slot of the 25 has
\* width 0 and the identity rule stdcalc; and Engine Speed is the only slot
\* decoded by rpmcalc.
C14_SevenActiveSlots ==
    builds >= 1 =>
        \A i \in Slots :
            /\ IF i \in DOMAIN SupportedNames
               THEN /\ o[i].bytes > 0
                    /\ o[i].commandname = SupportedNames[i]
               ELSE /\ o[i].bytes = 0
                    /\ o[i].calculate = "stdcalc"
            /\ o[i].calculate \in {"rpmcalc", "stdcalc"}
            /\ o[i].calculate = "rpmcalc" <=>
                  (i \in DOMAIN SupportedNames /\ SupportedNames[i] = "Engine Speed")

\* The catalog has just been built: setupcommands has returned and the sink
\* is about to be opened.
C14_Witness ==
    /\ pc = "fopen"
    /\ builds = 1
    /\ o[12].calculate = "rpmcalc"
    /\ o[24].bytes = 0

----------------------------------------------------------------------------
(* C15 *)

\* C15: elm327_set_timeout is called at most once in a run; by the time a
\* request is sent or a response awaited it has been called once, with
\* 3000 ms; and once set the timeout never changes.
C15_TimeoutSetOnce ==
    /\ [](timeoutSets <= 1)
    /\ []((pc \in {"send", "recv"} \/ Len(sent) > 0) =>
              (timeoutSets = 1 /\ timeout = TimeoutMs))
    /\ [][timeoutSets >= 1 =>
              (timeout' = timeout /\ timeoutSets' = timeoutSets)]_vars

\* The run is waiting for the response to its second request, under the
\* timeout set at startup.
C15_Witness ==
    /\ pc = "recv"
    /\ Len(sent) = 2
    /\ timeoutSets = 1
    /\ timeout = TimeoutMs

----------------------------------------------------------------------------
(* C16 *)

\* the values of one byte of a response
Byte == 0 .. 255

\* the catalog as lines 466-472 leave it
BuiltCatalog == setupcommands(InitSlotTable([i \in Slots |-> IndetPid]))

\* the slots queried before Engine Speed, each answered with <<95, 0>>
EarlierSlots == << 3, 4, 5, 10, 11 >>

\* main at line 494 for slot 12: the five entries before Engine Speed have
\* been reported, and the response to the Engine Speed request has arrived,
\* carrying any two payload bytes.
InitDecode ==
    /\ pc = "decode"
    /\ argv = << "x" >>
    /\ device_name = DEFAULT_DEVICE_NAME
    /\ output_file = DEFAULT_OUTPUT_FILE
    /\ usagePrinted = FALSE
    /\ elm_fd = GoodFd
    /\ devOpen = TRUE
    /\ shutdowns = 0
    /\ timeout = TimeoutMs
    /\ timeoutSets = 1
    /\ o = BuiltCatalog
    /\ builds = 1
    /\ out = "FILE"
    /\ sinkOpen = TRUE
    /\ opens = 1
    /\ closes = 0
    /\ buf = [k \in 1 .. Len(EarlierSlots) |->
                FormatLine(BuiltCatalog[EarlierSlots[k]].commandname, ToDouble(95))]
    /\ file = << >>
    /\ writesToNull = 0
    /\ j = 12
    /\ \E a, b \in Byte :
         /\ recv_msg = << 65, BuiltCatalog[12].command, a, b >>
         /\ responses = [i \in Slots |->
                           IF i = 12 THEN << a, b >>
                           ELSE IF i \in {3, 4, 5, 10, 11} THEN << 95, 0 >>
                           ELSE NullMsg]
    /\ liveBufs = 1
    /\ received = Len(EarlierSlots) + 1
    /\ released = Len(EarlierSlots)
    /\ inflight = 0
    /\ flushedSince = TRUE
    /\ b1 = ToDouble(95)
    /\ b2 = ToDouble(0)
    /\ r = ToDouble(95)
    /\ err = 0
    /\ failure = "none"
    /\ sent = EarlierSlots \o << 12 >>
    /\ sentSlots = EarlierSlots \o << 12 >>
    /\ status = NoStatus

\* lines 494-496 for that response
NextDecode == Decode

SpecDecode == InitDecode /\ [][NextDecode]_vars

\* x <= y and x = y for fractions with positive denominators
FracLeq(x, y) == x.n * y.d <= y.n * x.d

FracEq(x, y) == x.n * y.d = y.n * x.d

\* C16: whatever two bytes a and b the Engine Speed response carries, the
\* decoded value ((a*256)+b)/4 is a number of quarters between 0 and 65535
\* (exact in a double), lies within the entry's [min, max] = [0, 16383.75],
\* equals min only for (0, 0) and max only for (255, 255).
C16_RpmWithinRange ==
    (pc = "destroy" /\ j = 12) =>
        LET a == recv_msg[3]
            b == recv_msg[4]
        IN  /\ a \in Byte /\ b \in Byte
            /\ FracEq(r, Frac(a * 256 + b, 4))
            /\ r.d = 4 /\ r.n \in 0 .. 65535
            /\ FracLeq(o[12].min, r)
            /\ FracLeq(r, o[12].max)
            /\ FracEq(r, o[12].min) <=> (a = 0 /\ b = 0)
            /\ FracEq(r, o[12].max) <=> (a = 255 /\ b = 255)

\* The response carried (255, 255) and was decoded to the declared maximum.
C16_Witness ==
    /\ pc = "destroy"
    /\ j = 12
    /\ recv_msg[3] = 255 /\ recv_msg[4] = 255
    /\ FracEq(r, Frac(1638375, 100))

----------------------------------------------------------------------------
(* C17 *)

\* C17: a run in which elm327_init opened the device has called
\* elm327_shutdown exactly once by the time it ends, whether the sweep
\* completed or was aborted by a failed send or receive; and no run calls it
\* more than once.
C17_ShutdownOnEveryPath ==
    /\ shutdowns <= 1
    /\ (pc = "exited" /\ elm_fd = GoodFd) => (shutdowns = 1 /\ ~devOpen)

----------------------------------------------------------------------------
(* C18 *)

\* C18: when elm327_init did not open the device, no request is ever handed
\* to the transport and the output file is neither opened nor truncated; a
\* request is only ever sent on a handle that a successful open returned.
C18_NoSweepOnFailedOpen ==
    /\ elm_fd = BadFd => (sent = << >> /\ opens = 0 /\ ~sinkOpen)
    /\ Len(sent) > 0 => elm_fd = GoodFd

----------------------------------------------------------------------------
(* C19 *)

\* C19: in the built catalog every active slot i holds the request code i,
\* a slot index of the 25-slot table; so the request codes a sweep sends are
\* the slots it visits, strictly increasing, and none is sent twice.
C19_CodeIsSlotIndex ==
    /\ builds >= 1 =>
          \A i \in Slots :
              o[i].bytes > 0 => (o[i].command = i /\ o[i].command \in 0 .. 24)
    /\ sent = sentSlots
    /\ \A k \in 1 .. (Len(sent) - 1) : sent[k] < sent[k + 1]
    /\ NoDuplicates(sent)

\* A sweep that ended after sending the seven request codes, in slot order.
C19_Witness ==
    /\ Terminated
    /\ builds = 1
    /\ sent = << 3, 4, 5, 10, 11, 12, 13 >>

====
